---- MODULE Spec2Model ----
(***************************************************************************)
(* Chat service of the able backend: api/models.py (Chat, Message),        *)
(* api/views.py (create_or_get_chat, MessageCreateView, ChatDetailView,    *)
(* admin_initiate_chat), api/serializers.py (MessageSerializer) and        *)
(* api/admin.py (the two bulk "initiate admin chat" actions).              *)
(*                                                                         *)
(* The program's state is the database: the Chat rows and the Message rows *)
(* in creation order (a row's id is its index) and the clock.  Every       *)
(* timezone.now() read returns an instant later than the previous read;    *)
(* `now` is the last instant handed out.                                   *)
(*                                                                         *)
(* A request handler is an operator from a database and a request to a     *)
(* result: the database it leaves, the response status and the chat id of  *)
(* the response body.  The action of a handler commits the database of its *)
(* result.                                                                 *)
(*                                                                         *)
(* The lookup filter `participants__count=2` is modelled as it reads: the  *)
(* chat has exactly two participants.                                      *)
(*                                                                         *)
(* The feed is modelled beside it: the Post, Job and Service tables with   *)
(* their list and detail views (FeedSpec) and the PostLike table with the  *)
(* interleaved statements of toggle_like (LikeSpec).                       *)
(***************************************************************************)
EXTENDS Integers, Sequences, FiniteSets, TLC

\* ---------------------------------------------------------------- bounds
NumUsers == 3
MaxTime == 3
NumCalls == 3
MaxRows == 2

\* ------------------------------------------------------------ the tables
Users == 1..NumUsers
Staff == {1}
\* request.data.get('user_id'): 0 stands for a missing or falsy value,
\* NumUsers + 1 for an id with no User row
UserIds == 0..(NumUsers + 1)
Contents == {"", "hi"}
\* the is_read field of a message request body
IsReadInputs == {"absent", "true", "false"}
\* the optional 'message' field of an admin_initiate_chat request body
AdminMessages == {"absent", "hi"}
username(u) == "user" \o ToString(u)
Calls == 1..NumCalls

VARIABLES chats, messages, now, pc, found, req,
          posts, jobs, services, likes, toggle

vars == <<chats, messages, now, pc, found, req,
          posts, jobs, services, likes, toggle>>
conc == <<pc, found, req>>
feed == <<posts, jobs, services, likes, toggle>>

Current == [chats |-> chats, messages |-> messages, now |-> now]

ChatIds(cs) == 1..Len(cs)

\* models.py Chat: participants (many-to-many), updated_at (auto_now), is_active
Chat(ps, t) == [participants |-> ps, updated_at |-> t, is_active |-> TRUE]

\* models.py Message: is_read defaults to False
Message(c, u, text, t, r) ==
  [chat |-> c, sender |-> u, content |-> text, created_at |-> t, is_read |-> r]

Result(d, status, c) == [db |-> d, status |-> status, chat |-> c]

\* mutant: the count filter asks for the wrong number of participants
MatchingChats_wrong_count(cs, u, o) ==
  {c \in ChatIds(cs) : /\ u \in cs[c].participants
                       /\ o \in cs[c].participants
                       /\ Cardinality(cs[c].participants) = 3}

\* mutant: the lookup finds a chat only for the caller with the smaller id
MatchingChats_ordered(cs, u, o) ==
  {c \in ChatIds(cs) : /\ u \in cs[c].participants
                       /\ o \in cs[c].participants
                       /\ Cardinality(cs[c].participants) = 2
                       /\ u <= o}

\* Chat.objects.filter(participants=u).filter(participants=o)
\*              .filter(participants__count=2)
MatchingChats(cs, u, o) ==
  {c \in ChatIds(cs) : /\ u \in cs[c].participants
                       /\ o \in cs[c].participants
                       /\ Cardinality(cs[c].participants) = 2}

\* .first() under Chat.Meta.ordering = ['-updated_at']; 0 when there is none
First(cs, S) ==
  IF S = {} THEN 0
  ELSE CHOOSE c \in S : \A d \in S : cs[d].updated_at <= cs[c].updated_at

existing_chat(cs, u, o) == First(cs, MatchingChats(cs, u, o))

\* chat = Chat.objects.create(); chat.participants.add(u, o)
CreateChat(d, u, o) ==
  [d EXCEPT !.chats = Append(d.chats, Chat({u, o}, d.now + 1)),
            !.now = d.now + 1]

\* mutant: the new message is saved over the latest Message row
CreateMessage_overwrite(d, c, u, text, r) ==
  [d EXCEPT !.messages =
              IF d.messages = <<>>
                THEN <<Message(c, u, text, d.now + 1, r)>>
                ELSE [d.messages EXCEPT ![Len(d.messages)] =
                        Message(c, u, text, d.now + 1, r)],
            !.now = d.now + 1]

\* Message.objects.create(chat=c, sender=u, content=text) and serializer.save
CreateMessage(d, c, u, text, r) ==
  [d EXCEPT !.messages = Append(d.messages, Message(c, u, text, d.now + 1, r)),
            !.now = d.now + 1]

\* chat.save(): auto_now sets updated_at
SaveChat(d, c) ==
  [d EXCEPT !.chats[c].updated_at = d.now + 1, !.now = d.now + 1]

\* mutant: the handler creates a chat without looking for an existing one
create_or_get_chat_no_lookup(d, u, uid) ==
  IF uid = 0 THEN Result(d, "BadRequest", 0)
  ELSE IF uid \notin Users THEN Result(d, "NotFound", 0)
  ELSE Result(CreateChat(d, u, uid), "Created", Len(d.chats) + 1)

\* mutant: the target is not looked up in the User table
create_or_get_chat_no_404(d, u, uid) ==
  IF uid = 0 THEN Result(d, "BadRequest", 0)
  ELSE IF existing_chat(d.chats, u, uid) # 0
    THEN Result(d, "OK", existing_chat(d.chats, u, uid))
  ELSE Result(CreateChat(d, u, uid), "Created", Len(d.chats) + 1)

\* ----------------------------------------------------- create_or_get_chat
create_or_get_chat(d, u, uid) ==
  IF uid = 0 THEN Result(d, "BadRequest", 0)
  ELSE IF uid \notin Users THEN Result(d, "NotFound", 0)
  ELSE IF existing_chat(d.chats, u, uid) # 0
    THEN Result(d, "OK", existing_chat(d.chats, u, uid))
  ELSE Result(CreateChat(d, u, uid), "Created", Len(d.chats) + 1)

\* mutant: the content field allows a blank value
is_valid_allow_blank(text) == TRUE

\* ------------------------------------------------------ MessageSerializer
\* fields = [id, sender, content, created_at, is_read]; read-only are sender,
\* id and created_at.  content is a required, non-blank text field.
is_valid(text) == text # ""

\* is_read is a writable field: a supplied value reaches the new row, an
\* absent one leaves the model default (False)
validated_is_read(r) == r = "true"

\* mutant: the chat is fetched without the participants filter
SendableChat_any_user(cs, u, c) ==
  /\ c \in ChatIds(cs)
  /\ cs[c].is_active

\* ------------------------------------------ MessageCreateView.perform_create
\* get_object_or_404(Chat, id=chat_id, participants=user, is_active=True)
SendableChat(cs, u, c) ==
  /\ c \in ChatIds(cs)
  /\ u \in cs[c].participants
  /\ cs[c].is_active

\* mutant: sending also marks the sender's incoming messages as read
perform_create_marks_read(d, u, c, text, r) ==
  IF ~is_valid(text) THEN Result(d, "BadRequest", 0)
  ELSE IF ~SendableChat(d.chats, u, c) THEN Result(d, "NotFound", 0)
  ELSE Result(SaveChat(CreateMessage(
                         [d EXCEPT !.messages =
                            [i \in 1..Len(d.messages) |->
                               IF d.messages[i].chat = c /\ d.messages[i].sender # u
                                 THEN [d.messages[i] EXCEPT !.is_read = TRUE]
                                 ELSE d.messages[i]]],
                         c, u, text, validated_is_read(r)), c),
              "Created", c)

\* CreateAPIView.create validates the body, then calls perform_create
perform_create(d, u, c, text, r) ==
  IF ~is_valid(text) THEN Result(d, "BadRequest", 0)
  ELSE IF ~SendableChat(d.chats, u, c) THEN Result(d, "NotFound", 0)
  ELSE Result(SaveChat(CreateMessage(d, c, u, text, validated_is_read(r)), c),
              "Created", c)

\* ---------------------------------------------------- ChatDetailView.retrieve
\* mutant: the queryset leaves out is_active=True
VisibleChat_any_state(cs, u, c) ==
  /\ c \in ChatIds(cs)
  /\ u \in cs[c].participants

\* get_queryset: Chat.objects.filter(participants=user, is_active=True)
VisibleChat(cs, u, c) ==
  /\ c \in ChatIds(cs)
  /\ u \in cs[c].participants
  /\ cs[c].is_active

\* mutant: only the oldest unread message is marked
MarkRead_first_only(ms, c, u) ==
  LET unread == {i \in 1..Len(ms) : ms[i].chat = c /\ ~ms[i].is_read /\ ms[i].sender # u}
  IN [i \in 1..Len(ms) |->
        IF i \in unread /\ \A j \in unread : i <= j
          THEN [ms[i] EXCEPT !.is_read = TRUE]
          ELSE ms[i]]

\* mutant: the update leaves out .exclude(sender=user)
MarkRead_no_exclude(ms, c, u) ==
  [i \in 1..Len(ms) |->
     IF ms[i].chat = c /\ ~ms[i].is_read
       THEN [ms[i] EXCEPT !.is_read = TRUE]
       ELSE ms[i]]

\* instance.messages.filter(is_read=False).exclude(sender=user).update(is_read=True)
MarkRead(ms, c, u) ==
  [i \in 1..Len(ms) |->
     IF ms[i].chat = c /\ ~ms[i].is_read /\ ms[i].sender # u
       THEN [ms[i] EXCEPT !.is_read = TRUE]
       ELSE ms[i]]

retrieve(d, u, c) ==
  IF ~VisibleChat(d.chats, u, c) THEN Result(d, "NotFound", 0)
  ELSE Result([d EXCEPT !.messages = MarkRead(d.messages, c, u)], "OK", c)

\* ------------------------------------------------------ admin_initiate_chat
message_content(m) == IF m = "absent" THEN "Hello! This is an admin message." ELSE m

admin_initiate_chat(d, u, uid, m) ==
  IF u \notin Staff THEN Result(d, "Forbidden", 0)
  ELSE IF uid = 0 THEN Result(d, "BadRequest", 0)
  ELSE IF uid \notin Users THEN Result(d, "NotFound", 0)
  ELSE IF existing_chat(d.chats, u, uid) # 0
    THEN Result(CreateMessage(d, existing_chat(d.chats, u, uid), u,
                              message_content(m), FALSE),
                "OK", existing_chat(d.chats, u, uid))
  ELSE Result(CreateMessage(CreateChat(d, u, uid), Len(d.chats) + 1, u,
                            message_content(m), FALSE),
              "OK", Len(d.chats) + 1)

\* ------------------------------------------------- admin.py bulk actions
\* The loop body shared by UserAdmin.initiate_admin_chat and
\* ChatAdmin.initiate_admin_chat_with_participants: a chat and a greeting
\* are created only when the lookup finds nothing.
InitiateFor(d, admin, user, greeting) ==
  IF existing_chat(d.chats, admin, user) # 0 THEN d
  ELSE CreateMessage(CreateChat(d, admin, user), Len(d.chats) + 1, admin,
                     greeting, FALSE)

RECURSIVE InitiateLoop(_, _, _, _)
InitiateLoop(d, admin, queue, greeting) ==
  IF queue = <<>> THEN d
  ELSE InitiateLoop(InitiateFor(d, admin, Head(queue),
                                greeting \o username(Head(queue))),
                    admin, Tail(queue), greeting)

\* the rows of a queryset, largest key first
RECURSIVE Descending(_, _)
Descending(S, key) ==
  IF S = {} THEN <<>>
  ELSE LET x == CHOOSE y \in S : \A z \in S : key[z] <= key[y]
       IN <<x>> \o Descending(S \ {x}, key)

RECURSIVE Ascending(_)
Ascending(S) ==
  IF S = {} THEN <<>>
  ELSE LET x == CHOOSE y \in S : \A z \in S : y <= z
       IN <<x>> \o Ascending(S \ {x})

\* UserAdmin.ordering = ['-join_date']; accounts join in id order
JoinOrder == [u \in Users |-> u]

\* UserAdmin.initiate_admin_chat(request, queryset)
initiate_admin_chat(d, admin, queryset) ==
  Result(InitiateLoop(d, admin, Descending(queryset, JoinOrder),
                      "admin message for "),
         "OK", 0)

\* chat.participants.exclude(id=request.user.id) for each chat of the queryset
RECURSIVE ParticipantsOf(_, _, _)
ParticipantsOf(cs, admin, queue) ==
  IF queue = <<>> THEN <<>>
  ELSE Ascending(cs[Head(queue)].participants \ {admin})
         \o ParticipantsOf(cs, admin, Tail(queue))

\* ChatAdmin.initiate_admin_chat_with_participants(request, queryset), the
\* chats in ChatAdmin.ordering = ['-updated_at']
initiate_admin_chat_with_participants(d, admin, queryset) ==
  LET UpdatedAt == [c \in ChatIds(d.chats) |-> d.chats[c].updated_at]
  IN Result(InitiateLoop(d, admin,
                         ParticipantsOf(d.chats, admin,
                                        Descending(queryset, UpdatedAt)),
                         "admin message on activity for "),
            "OK", 0)

\* ------------------------------------- ChatAdmin change form: deactivation
deactivate(d, c) ==
  IF c \in ChatIds(d.chats) /\ d.chats[c].is_active
    THEN Result(SaveChat([d EXCEPT !.chats[c].is_active = FALSE], c), "OK", c)
    ELSE Result(d, "NotFound", 0)

\* ----------------------------------------------------------- ChatSerializer
\* obj.messages: the rows of Message with chat = c
messages_of(ms, c) == {i \in 1..Len(ms) : ms[i].chat = c}

\* mutant: the oldest message is taken instead of the newest
get_last_message_first(ms, c) ==
  IF messages_of(ms, c) = {} THEN 0
  ELSE CHOOSE i \in messages_of(ms, c) :
         \A j \in messages_of(ms, c) : ms[i].created_at <= ms[j].created_at

\* get_last_message: obj.messages.last() under Message.Meta.ordering =
\* ['created_at'], the id of the row or 0 for None
get_last_message(ms, c) ==
  LET created_at == [i \in 1..Len(ms) |-> ms[i].created_at]
  IN IF messages_of(ms, c) = {} THEN 0
     ELSE Head(Descending(messages_of(ms, c), created_at))

\* get_unread_count:
\* obj.messages.filter(is_read=False).exclude(sender=request.user).count()
get_unread_count(ms, c, u) ==
  Cardinality({i \in messages_of(ms, c) : ~ms[i].is_read}
                \ {i \in 1..Len(ms) : ms[i].sender = u})

\* one element of the serialized list
summarize(ms, c, u) ==
  [id |-> c,
   last_message |-> get_last_message(ms, c),
   unread_count |-> get_unread_count(ms, c, u)]

\* mutant: listing the chats marks their messages as read
chat_list_marks_read(d, u) ==
  [db |-> [d EXCEPT !.messages =
             [i \in 1..Len(d.messages) |->
                IF VisibleChat(d.chats, u, d.messages[i].chat)
                     /\ d.messages[i].sender # u
                  THEN [d.messages[i] EXCEPT !.is_read = TRUE]
                  ELSE d.messages[i]]],
   status |-> "OK", body |-> <<>>]

\* ------------------------------------------------------------- ChatListView
\* get_queryset: Chat.objects.filter(participants=user, is_active=True), in
\* Chat.Meta.ordering = ['-updated_at']
chat_list(d, u) ==
  LET updated_at == [c \in ChatIds(d.chats) |-> d.chats[c].updated_at]
      queryset == Descending({c \in ChatIds(d.chats) : VisibleChat(d.chats, u, c)},
                             updated_at)
  IN [db |-> d, status |-> "OK",
      body |-> [k \in 1..Len(queryset) |-> summarize(d.messages, queryset[k], u)]]

\* ------------------------------------------- posts, jobs and services
\* A row of Post, Job or Service keeps its owner (author / posted_by /
\* provider), one text field (content / title), is_active and, for a Post,
\* likes_count; the timestamps are left out.  A table is the sequence of its
\* rows in creation order, a row's id is its index, and a deleted row stays
\* in the sequence as a row that is not `present`, since ids are not reused.
Post(u, text) ==
  [author |-> u, content |-> text, likes_count |-> 0,
   is_active |-> TRUE, present |-> TRUE]
Job(u, text) ==
  [posted_by |-> u, title |-> text, is_active |-> TRUE, present |-> TRUE]
Service(u, text) ==
  [provider |-> u, title |-> text, is_active |-> TRUE, present |-> TRUE]

NoPost ==
  [author |-> 0, content |-> "", likes_count |-> 0,
   is_active |-> FALSE, present |-> FALSE]
NoJob == [posted_by |-> 0, title |-> "", is_active |-> FALSE, present |-> FALSE]
NoService == [provider |-> 0, title |-> "", is_active |-> FALSE, present |-> FALSE]

\* the owner field, the text field and the deleted row of each model
PostModel == [owner |-> "author", text |-> "content", gone |-> NoPost]
JobModel == [owner |-> "posted_by", text |-> "title", gone |-> NoJob]
ServiceModel == [owner |-> "provider", text |-> "title", gone |-> NoService]

Methods == {"GET", "PUT", "PATCH", "DELETE"}
\* a request body: the text field and is_active, each possibly absent
Bodies == [text : {"absent", "", "b"}, is_active : {"absent", "false"}]

\* get_queryset: <Model>.objects.filter(is_active=True), looked up by pk
InQueryset(table, pk) ==
  /\ pk \in 1..Len(table)
  /\ table[pk].present
  /\ table[pk].is_active

\* mutant: the ownership test covers PUT and PATCH only
get_object_delete_unchecked(table, model, user, pk, method) ==
  IF ~InQueryset(table, pk) THEN "NotFound"
  ELSE IF /\ method \in {"PUT", "PATCH"}
          /\ table[pk][model.owner] # user
          /\ user \notin Staff
    THEN "Forbidden"
  ELSE "OK"

\* PostDetailView.get_object, JobDetailView.get_object and
\* ServiceDetailView.get_object: the same code up to the owner field
get_object(table, model, user, pk, method) ==
  IF ~InQueryset(table, pk) THEN "NotFound"
  ELSE IF /\ method \in {"PUT", "PATCH", "DELETE"}
          /\ table[pk][model.owner] # user
          /\ user \notin Staff
    THEN "Forbidden"
  ELSE "OK"

\* serializer.is_valid for an update: PUT needs the text field, PATCH is
\* partial, and a blank text is refused
valid_update(method, body) ==
  /\ body.text # ""
  /\ method = "PUT" => body.text # "absent"

\* serializer.save() of an update: the fields of the body are written
updated(row, model, body) ==
  [[row EXCEPT ![model.text] = IF body.text = "absent" THEN @ ELSE body.text]
     EXCEPT !.is_active = IF body.is_active = "absent" THEN @ ELSE FALSE]

\* RetrieveUpdateDestroyAPIView: retrieve, update, partial_update, destroy
detail(table, model, user, pk, method, body) ==
  LET status == get_object(table, model, user, pk, method)
  IN IF status # "OK" THEN [table |-> table, status |-> status]
     ELSE IF method = "GET" THEN [table |-> table, status |-> "OK"]
     ELSE IF method = "DELETE"
       THEN [table |-> [table EXCEPT ![pk] = model.gone], status |-> "NoContent"]
     ELSE IF ~valid_update(method, body)
       THEN [table |-> table, status |-> "BadRequest"]
     ELSE [table |-> [table EXCEPT ![pk] = updated(table[pk], model, body)],
           status |-> "OK"]

\* ListCreateAPIView.create: perform_create saves the row with the request's
\* user as owner; a blank text is refused
create(table, row, text) ==
  IF text = "" THEN [table |-> table, status |-> "BadRequest"]
  ELSE [table |-> Append(table, row), status |-> "Created"]

\* models.py PostLike: user, post; unique_together = ('user', 'post')
PostLike(u, post_id) == [user |-> u, post |-> post_id, present |-> TRUE]

\* on_delete=models.CASCADE of PostLike.post
cascade(ls, post_id) ==
  [i \in 1..Len(ls) |->
     IF ls[i].post = post_id THEN [ls[i] EXCEPT !.present = FALSE] ELSE ls[i]]

\* a toggle_like request in flight: where it stands, its user and post_id and
\* its local variables post (the in-memory Post) and like (the PostLike id)
ToggleCall(at, u, post_id) ==
  [pc |-> at, user |-> u, post_id |-> post_id, post |-> NoPost, like |-> 0]

FeedInit ==
  /\ posts = <<>>
  /\ jobs = <<>>
  /\ services = <<>>
  /\ likes = <<>>
  /\ toggle = [p \in Calls |-> ToggleCall("done", 1, 1)]

\* ------------------------------------------------------------ the actions
Commit(r) ==
  /\ r.db.now <= MaxTime
  /\ chats' = r.db.chats
  /\ messages' = r.db.messages
  /\ now' = r.db.now
  /\ UNCHANGED <<conc, feed>>

GetOrCreate(u, uid) == Commit(create_or_get_chat(Current, u, uid))

Send(u, c, text, r) == Commit(perform_create(Current, u, c, text, r))

OpenDetail(u, c) == Commit(retrieve(Current, u, c))

AdminInitiate(u, uid, m) == Commit(admin_initiate_chat(Current, u, uid, m))

UserAdminAction(admin, queryset) == Commit(initiate_admin_chat(Current, admin, queryset))

ChatAdminAction(admin, queryset) ==
  Commit(initiate_admin_chat_with_participants(Current, admin, queryset))

ListChats(u) == Commit(chat_list(Current, u))

Deactivate(c) == Commit(deactivate(Current, c))

Init ==
  /\ chats = <<>>
  /\ messages = <<>>
  /\ now = 0
  /\ pc = [p \in Calls |-> "done"]
  /\ found = [p \in Calls |-> 0]
  /\ req = [p \in Calls |-> <<1, 2>>]
  /\ FeedInit

Next ==
  \/ \E u \in Users, uid \in UserIds : GetOrCreate(u, uid)
  \/ \E u \in Users, c \in 1..(Len(chats) + 1), text \in Contents, r \in IsReadInputs :
       Send(u, c, text, r)
  \/ \E u \in Users, c \in 1..(Len(chats) + 1) : OpenDetail(u, c)
  \/ \E u \in Users, uid \in UserIds, m \in AdminMessages : AdminInitiate(u, uid, m)
  \/ \E admin \in Staff, queryset \in SUBSET Users : UserAdminAction(admin, queryset)
  \/ \E admin \in Staff, queryset \in SUBSET ChatIds(chats) :
       ChatAdminAction(admin, queryset)
  \/ \E u \in Users : ListChats(u)
  \/ \E c \in ChatIds(chats) : Deactivate(c)

Spec == Init /\ [][Next]_vars

\* ------------------------------------------- concurrent create_or_get_chat
\* NumCalls requests for the pair {1, 2} run without a transaction, so the
\* three statements of the handler interleave: the lookup (views.py 318-324),
\* Chat.objects.create() (331) and chat.participants.add (332).
Lookup(p) ==
  /\ pc[p] = "lookup"
  /\ found' = [found EXCEPT ![p] = existing_chat(chats, req[p][1], req[p][2])]
  /\ pc' = [pc EXCEPT ![p] = IF found'[p] # 0 THEN "done" ELSE "create"]
  /\ UNCHANGED <<chats, messages, now, req, feed>>

CreateRow(p) ==
  /\ pc[p] = "create"
  /\ now < MaxTime
  /\ chats' = Append(chats, Chat({}, now + 1))
  /\ now' = now + 1
  /\ found' = [found EXCEPT ![p] = Len(chats) + 1]
  /\ pc' = [pc EXCEPT ![p] = "add"]
  /\ UNCHANGED <<messages, req, feed>>

AddParticipants(p) ==
  /\ pc[p] = "add"
  /\ chats' = [chats EXCEPT ![found[p]].participants = {req[p][1], req[p][2]}]
  /\ pc' = [pc EXCEPT ![p] = "done"]
  /\ UNCHANGED <<messages, now, found, req, feed>>

ConcInit ==
  /\ chats = <<>>
  /\ messages = <<>>
  /\ now = 0
  /\ pc = [p \in Calls |-> "lookup"]
  /\ found = [p \in Calls |-> 0]
  /\ req \in [Calls -> {<<1, 2>>, <<2, 1>>}]
  /\ FeedInit

ConcNext ==
  \/ \E p \in Calls : Lookup(p)
  \/ \E p \in Calls : CreateRow(p)
  \/ \E p \in Calls : AddParticipants(p)

ConcSpec == ConcInit /\ [][ConcNext]_vars

\* --------------------------------- the post, job and service views
\* Requests to posts/, posts/<pk>/, jobs/, jobs/<pk>/, services/ and
\* services/<pk>/, one whole handler per step; at most MaxRows rows are
\* created over the three tables.
chat_state == <<chats, messages, now, conc>>

CreatePost(u, text) ==
  /\ Len(create(posts, Post(u, text), text).table) + Len(jobs) + Len(services)
       <= MaxRows
  /\ posts' = create(posts, Post(u, text), text).table
  /\ UNCHANGED <<jobs, services, likes, toggle, chat_state>>

CreateJob(u, text) ==
  /\ Len(posts) + Len(create(jobs, Job(u, text), text).table) + Len(services)
       <= MaxRows
  /\ jobs' = create(jobs, Job(u, text), text).table
  /\ UNCHANGED <<posts, services, likes, toggle, chat_state>>

CreateService(u, text) ==
  /\ Len(posts) + Len(jobs) + Len(create(services, Service(u, text), text).table)
       <= MaxRows
  /\ services' = create(services, Service(u, text), text).table
  /\ UNCHANGED <<posts, jobs, likes, toggle, chat_state>>

PostDetail(u, pk, method, body) ==
  /\ posts' = detail(posts, PostModel, u, pk, method, body).table
  /\ likes' = IF detail(posts, PostModel, u, pk, method, body).status = "NoContent"
                THEN cascade(likes, pk)
                ELSE likes
  /\ UNCHANGED <<jobs, services, toggle, chat_state>>

JobDetail(u, pk, method, body) ==
  /\ jobs' = detail(jobs, JobModel, u, pk, method, body).table
  /\ UNCHANGED <<posts, services, likes, toggle, chat_state>>

ServiceDetail(u, pk, method, body) ==
  /\ services' = detail(services, ServiceModel, u, pk, method, body).table
  /\ UNCHANGED <<posts, jobs, likes, toggle, chat_state>>

FeedNext ==
  \/ \E u \in Users, text \in {"", "a"} : CreatePost(u, text)
  \/ \E u \in Users, text \in {"", "a"} : CreateJob(u, text)
  \/ \E u \in Users, text \in {"", "a"} : CreateService(u, text)
  \/ \E u \in Users, pk \in 1..(Len(posts) + 1), method \in Methods, body \in Bodies :
       PostDetail(u, pk, method, body)
  \/ \E u \in Users, pk \in 1..(Len(jobs) + 1), method \in Methods, body \in Bodies :
       JobDetail(u, pk, method, body)
  \/ \E u \in Users, pk \in 1..(Len(services) + 1), method \in Methods, body \in Bodies :
       ServiceDetail(u, pk, method, body)

FeedSpec == Init /\ [][FeedNext]_vars

\* ------------------------------------------------- concurrent toggle_like
\* NumCalls toggle_like requests run without a transaction and without
\* select_for_update, so the statements of the handler interleave: the
\* get_object_or_404 that loads the Post (views.py 114), get_or_create of
\* the PostLike (115), like.delete() (118) and post.save() (125).
GetPost(p) ==
  LET t == toggle[p]
  IN /\ t.pc = "get_post"
     /\ toggle' = [toggle EXCEPT ![p] =
                     IF InQueryset(posts, t.post_id)
                       THEN [t EXCEPT !.pc = "get_or_create",
                                      !.post = posts[t.post_id]]
                       ELSE ToggleCall("done", t.user, t.post_id)]
     /\ UNCHANGED <<posts, jobs, services, likes, chat_state>>

\* PostLike.objects.get_or_create(user=request.user, post=post): the unique
\* constraint makes it return the existing row or insert the only one; in the
\* created branch the handler goes on to post.likes_count += 1
GetOrCreateLike(p) ==
  LET t == toggle[p]
      existing == {i \in 1..Len(likes) :
                     /\ likes[i].present
                     /\ likes[i].user = t.user
                     /\ likes[i].post = t.post_id}
  IN /\ t.pc = "get_or_create"
     /\ IF existing # {}
          THEN /\ toggle' = [toggle EXCEPT ![p] =
                               [t EXCEPT !.pc = "delete",
                                         !.like = CHOOSE i \in existing : TRUE]]
               /\ UNCHANGED likes
          ELSE /\ likes' = Append(likes, PostLike(t.user, t.post_id))
               /\ toggle' = [toggle EXCEPT ![p] =
                               [t EXCEPT !.pc = "save",
                                         !.like = Len(likes) + 1,
                                         !.post.likes_count = @ + 1]]
     /\ UNCHANGED <<posts, jobs, services, chat_state>>

\* like.delete(); post.likes_count = max(0, post.likes_count - 1)
DeleteLike(p) ==
  LET t == toggle[p]
  IN /\ t.pc = "delete"
     /\ likes' = [likes EXCEPT ![t.like].present = FALSE]
     /\ toggle' = [toggle EXCEPT ![p] =
                     [t EXCEPT !.pc = "save",
                               !.post.likes_count = IF @ > 0 THEN @ - 1 ELSE 0]]
     /\ UNCHANGED <<posts, jobs, services, chat_state>>

\* post.save() writes the in-memory Post over the row
SavePost(p) ==
  LET t == toggle[p]
  IN /\ t.pc = "save"
     /\ posts' = [posts EXCEPT ![t.post_id] = t.post]
     /\ toggle' = [toggle EXCEPT ![p] = ToggleCall("done", t.user, t.post_id)]
     /\ UNCHANGED <<jobs, services, likes, chat_state>>

\* one post of user 1 exists; each request names a user and post 1 or the
\* id 2 of no post
LikeInit ==
  /\ chats = <<>>
  /\ messages = <<>>
  /\ now = 0
  /\ pc = [p \in Calls |-> "done"]
  /\ found = [p \in Calls |-> 0]
  /\ req = [p \in Calls |-> <<1, 2>>]
  /\ posts = <<Post(1, "a")>>
  /\ jobs = <<>>
  /\ services = <<>>
  /\ likes = <<>>
  /\ toggle \in [Calls -> {ToggleCall("get_post", u, post_id) :
                             u \in Users, post_id \in 1..2}]

LikeNext ==
  \/ \E p \in Calls : GetPost(p)
  \/ \E p \in Calls : GetOrCreateLike(p)
  \/ \E p \in Calls : DeleteLike(p)
  \/ \E p \in Calls : SavePost(p)

LikeSpec == LikeInit /\ [][LikeNext]_vars

\* ================================================================ claims
ActiveChatsOf(cs, ps) ==
  {c \in ChatIds(cs) : cs[c].is_active /\ cs[c].participants = ps}

\* C1: in every state reached by whole get_or_create, send, mark_read and
\* admin chat-initiation operations, any two distinct accounts A and B have at
\* most one active chat whose participant set is exactly {A, B}.
C1_AtMostOneActiveChatPerPair ==
  \A a \in Users, b \in Users :
    a # b => Cardinality(ActiveChatsOf(chats, {a, b})) <= 1

C1_Witness ==
  /\ Len(chats) >= 2
  /\ Len(messages) >= 1
  /\ \E a \in Users, b \in Users :
       a # b /\ Cardinality(ActiveChatsOf(chats, {a, b})) = 1

\* C2: once NumCalls interleaved get_or_create calls for the pair {1, 2},
\* started on an empty database, have all finished, exactly one chat has the
\* participant set {1, 2}.
C2_OneChatAfterConcurrentCalls ==
  (\A p \in Calls : pc[p] = "done")
    => Cardinality({c \in ChatIds(chats) : chats[c].participants = {1, 2}}) = 1

\* C3: for existing distinct accounts A and B, a second get_or_create(A, B)
\* right after a first one returns the same chat id and creates no chat.
C3_GetOrCreateTwice ==
  \A a \in Users, b \in Users :
    a # b =>
      LET r1 == create_or_get_chat(Current, a, b)
          r2 == create_or_get_chat(r1.db, a, b)
      IN /\ r1.status \in {"OK", "Created"}
         /\ r2.status = "OK"
         /\ r2.chat = r1.chat
         /\ r2.db = r1.db

C3_Witness ==
  \E a \in Users, b \in Users :
    /\ a # b
    /\ create_or_get_chat(Current, a, b).status = "OK"
    /\ create_or_get_chat(Current, a, b).chat \in ChatIds(chats)

\* C4: for existing distinct accounts A and B, get_or_create(A, B) by A and
\* then get_or_create(B, A) by B return the same chat.
C4_GetOrCreateUnordered ==
  \A a \in Users, b \in Users :
    a # b =>
      LET r1 == create_or_get_chat(Current, a, b)
          r2 == create_or_get_chat(r1.db, b, a)
      IN /\ r2.chat = r1.chat
         /\ r2.chat \in ChatIds(r2.db.chats)
         /\ r2.db.chats[r2.chat].participants = {a, b}
         /\ Len(r2.db.chats) = Len(r1.db.chats)

C4_Witness ==
  \E a \in Users, b \in Users :
    /\ a < b
    /\ Cardinality(ActiveChatsOf(chats, {a, b})) = 1
    /\ create_or_get_chat(Current, b, a).chat
         = create_or_get_chat(Current, a, b).chat
    /\ Len(chats) >= 2

\* C5: get_or_create(A, A) fails with InvalidArgument (400) and creates no
\* chat.
C5_SelfChatRejected ==
  \A a \in Users :
    LET r == create_or_get_chat(Current, a, a)
    IN r.status = "BadRequest" /\ r.db = Current

\* C6: get_or_create with a target id that has no User row fails with
\* NotFound and leaves every chat and message as it was.
C6_UnknownTargetNotFound ==
  \A u \in Users, uid \in UserIds :
    (uid # 0 /\ uid \notin Users) =>
      LET r == create_or_get_chat(Current, u, uid)
      IN r.status = "NotFound" /\ r.db = Current

C6_Witness ==
  /\ Len(chats) >= 1
  /\ Len(messages) >= 1
  /\ \E u \in Users, uid \in UserIds :
       /\ uid # 0 /\ uid \notin Users
       /\ create_or_get_chat(Current, u, uid).status = "NotFound"

\* a send request by a non-participant of an existing active chat
OutsiderSend(u, c) ==
  /\ c \in ChatIds(chats)
  /\ chats[c].is_active
  /\ u \notin chats[c].participants

C8_NoMessageToInactiveChat ==
  [][\A i \in (Len(messages) + 1)..Len(messages') :
       chats'[messages'[i].chat].is_active]_vars

\* C9: every message created by send has read = false when it is created,
\* whatever the request body holds.
C9_SentMessageUnread ==
  \A u \in Users, c \in ChatIds(chats), text \in Contents, r \in IsReadInputs :
    LET res == perform_create(Current, u, c, text, r)
    IN res.status = "Created" =>
         /\ Len(res.db.messages) = Len(messages) + 1
         /\ ~res.db.messages[Len(res.db.messages)].is_read

\* C10: a chat's last-activity timestamp is not earlier than the creation
\* time of any of its messages.
C10_LastActivityCoversMessages ==
  \A i \in 1..Len(messages) :
    chats[messages[i].chat].updated_at >= messages[i].created_at
\* the current database and every database one successful message append
\* (a send or an admin_initiate_chat) later
OneAppendLater ==
  {Current}
    \cup {perform_create(Current, u, c, "hi", r).db :
            u \in Users, c \in ChatIds(chats), r \in IsReadInputs}
    \cup {admin_initiate_chat(Current, a, uid, "absent").db :
            a \in Staff, uid \in Users}
\* C11: send with empty content fails with InvalidArgument (400): no message
\* is created and the chat's last-activity timestamp is unchanged.
C11_EmptyContentRejected ==
  \A u \in Users, c \in 1..(Len(chats) + 1), r \in IsReadInputs :
    LET res == perform_create(Current, u, c, "", r)
    IN res.status = "BadRequest" /\ res.db = Current

C11_Witness ==
  \E u \in Users, c \in ChatIds(chats) :
    /\ SendableChat(chats, u, c)
    /\ messages_of(messages, c) # {}
    /\ perform_create(Current, u, c, "", "absent").status = "BadRequest"
    /\ perform_create(Current, u, c, "hi", "absent").status = "Created"
\* C12: mark_read(conv, viewer) sets read = true on exactly the messages of
\* conv that are unread and not sent by the viewer; every other message, of
\* this or another chat, keeps its read flag, and nothing else changes.
C12_MarkReadExactly ==
  \A d \in OneAppendLater :
    \A u \in Users, c \in ChatIds(d.chats) :
      VisibleChat(d.chats, u, c) =>
        LET res == retrieve(d, u, c)
        IN /\ res.status = "OK"
           /\ res.db.chats = d.chats
           /\ res.db.now = d.now
           /\ Len(res.db.messages) = Len(d.messages)
           /\ \A i \in 1..Len(d.messages) :
                /\ res.db.messages[i].is_read =
                     (\/ d.messages[i].is_read
                      \/ d.messages[i].chat = c /\ d.messages[i].sender # u)
                /\ [res.db.messages[i] EXCEPT !.is_read = FALSE]
                     = [d.messages[i] EXCEPT !.is_read = FALSE]

\* the viewer opened a chat holding an unread message of the other
\* participant, and the sender of an unread message can open it too
C12_Witness ==
  \E c \in ChatIds(chats), i \in 1..Len(messages) :
    /\ messages[i].chat = c
    /\ ~messages[i].is_read
    /\ \E u \in chats[c].participants \ {messages[i].sender} :
         /\ VisibleChat(chats, u, c)
         /\ retrieve(Current, u, c).db.messages[i].is_read
    /\ VisibleChat(chats, messages[i].sender, c)
    /\ ~retrieve(Current, messages[i].sender, c).db.messages[i].is_read
\* C13: after mark_read(conv, B), summarize(conv, B) reports unread count 0,
\* and a second mark_read(conv, B) right after it changes no message and
\* leaves the count at 0.
C13_MarkReadIdempotent ==
  \A d \in OneAppendLater :
    \A u \in Users, c \in ChatIds(d.chats) :
      VisibleChat(d.chats, u, c) =>
        LET r1 == retrieve(d, u, c)
            r2 == retrieve(r1.db, u, c)
        IN /\ summarize(r1.db.messages, c, u).unread_count = 0
           /\ r2.status = "OK"
           /\ r2.db = r1.db
           /\ summarize(r2.db.messages, c, u).unread_count = 0

\* a greeting of the admin endpoint is always created unread, so a read one
\* was marked by its receiver opening the chat
C13_Witness ==
  \E c \in ChatIds(chats), i \in 1..Len(messages) :
    /\ messages[i].chat = c
    /\ messages[i].content = message_content("absent")
    /\ messages[i].is_read
    /\ \E u \in chats[c].participants \ {messages[i].sender} :
         /\ VisibleChat(chats, u, c)
         /\ summarize(messages, c, u).unread_count = 0
         /\ retrieve(Current, u, c).db = Current
\* C14: right after a successful send(conv, A, c) by participant A,
\* summarize(conv, B) for the other participant B reports an unread count of
\* at least 1 and a last message whose content is c.
C14_SendShowsInSummary ==
  \A a \in Users, c \in ChatIds(chats), text \in Contents, r \in IsReadInputs :
    LET res == perform_create(Current, a, c, text, r)
    IN res.status = "Created" =>
         \A b \in chats[c].participants \ {a} :
           LET s == summarize(res.db.messages, c, b)
           IN /\ s.unread_count >= 1
              /\ s.last_message # 0
              /\ res.db.messages[s.last_message].content = text
\* the databases left by every request other than opening a chat's detail view
OtherResults ==
  {create_or_get_chat(Current, u, uid).db : u \in Users, uid \in UserIds}
    \cup {perform_create(Current, u, c, text, r).db :
            u \in Users, c \in 1..(Len(chats) + 1), text \in Contents,
            r \in IsReadInputs}
    \cup {admin_initiate_chat(Current, u, uid, m).db :
            u \in Users, uid \in UserIds, m \in AdminMessages}
    \cup {initiate_admin_chat(Current, a, q).db : a \in Staff, q \in SUBSET Users}
    \cup {initiate_admin_chat_with_participants(Current, a, q).db :
            a \in Staff, q \in SUBSET ChatIds(chats)}
    \cup {deactivate(Current, c).db : c \in ChatIds(chats)}
    \cup {chat_list(Current, u).db : u \in Users}

\* C15: a read flag that is true is never false again, and no request other
\* than mark_read (opening the chat's detail view) changes the read flag of
\* an existing message.
C15_ReadFlagOneWay ==
  /\ \A d \in OtherResults :
       /\ Len(d.messages) >= Len(messages)
       /\ \A i \in 1..Len(messages) : d.messages[i].is_read = messages[i].is_read
  /\ \A u \in Users, c \in 1..(Len(chats) + 1) :
       LET d == retrieve(Current, u, c).db
       IN /\ Len(d.messages) = Len(messages)
          /\ \A i \in 1..Len(messages) : messages[i].is_read => d.messages[i].is_read

\* a greeting that its receiver has marked read, next to a later unread one
C15_Witness ==
  \E i \in 1..Len(messages), j \in 1..Len(messages) :
    /\ i < j
    /\ messages[i].chat = messages[j].chat
    /\ messages[i].content = message_content("absent")
    /\ messages[i].is_read
    /\ ~messages[j].is_read

\* C16: summarize (the chat list with last message and unread count) is a
\* pure read: it leaves every chat, message and read flag as it was.
C16_SummarizePureRead ==
  \A u \in Users :
    LET res == chat_list(Current, u)
    IN /\ res.status = "OK"
       /\ res.db = Current
       /\ {res.body[k].id : k \in 1..Len(res.body)}
            = {c \in ChatIds(chats) : VisibleChat(chats, u, c)}

\* a viewer whose list shows a chat with an unread message
C16_Witness ==
  \E u \in Users :
    \E k \in 1..Len(chat_list(Current, u).body) :
      /\ chat_list(Current, u).body[k].unread_count >= 1
      /\ chat_list(Current, u).body[k].last_message # 0
\* C17: the sender of every message is a participant of the message's chat.
C17_SenderIsParticipant ==
  \A i \in 1..Len(messages) :
    /\ messages[i].chat \in ChatIds(chats)
    /\ messages[i].sender \in chats[messages[i].chat].participants

\* a message sent through the send endpoint by an account that is not staff
C17_Witness ==
  \E i \in 1..Len(messages) :
    /\ messages[i].sender \notin Staff
    /\ messages[i].sender \in chats[messages[i].chat].participants
    /\ Cardinality(chats[messages[i].chat].participants) = 2

\* C18: every chat has a participant set of exactly two distinct accounts.
C18_ExactlyTwoParticipants ==
  \A c \in ChatIds(chats) : Cardinality(chats[c].participants) = 2

\* C19: get_or_create(A, B) returns an existing chat only if it is active
\* and its participant set is exactly {A, B}; when no active chat for {A, B}
\* exists (the only one is inactive), a new active chat is created.
C19_LookupOnlyActive ==
  \A a \in Users, b \in Users :
    a # b =>
      LET res == create_or_get_chat(Current, a, b)
      IN /\ res.status = "OK" =>
              /\ chats[res.chat].is_active
              /\ chats[res.chat].participants = {a, b}
         /\ ActiveChatsOf(chats, {a, b}) = {} =>
              /\ res.status = "Created"
              /\ res.db.chats[res.chat].is_active
              /\ res.db.chats[res.chat].participants = {a, b}

\* C20: summarize(conv, viewer) returns as last message the most recently
\* created message of conv (none when conv has no message) and as unread
\* count the number of messages of conv that are unread and not sent by the
\* viewer.
C20_SummaryValues ==
  \A d \in OneAppendLater :
    \A c \in ChatIds(d.chats), u \in Users :
      LET s == summarize(d.messages, c, u)
          IsUnreadFor(m) == m.chat = c /\ ~m.is_read /\ m.sender # u
      IN /\ (s.last_message = 0) = (\A i \in 1..Len(d.messages) : d.messages[i].chat # c)
         /\ s.last_message # 0 =>
              /\ s.last_message \in 1..Len(d.messages)
              /\ d.messages[s.last_message].chat = c
              /\ \A i \in 1..Len(d.messages) :
                   d.messages[i].chat = c =>
                     d.messages[i].created_at <= d.messages[s.last_message].created_at
         /\ s.unread_count = Len(SelectSeq(d.messages, IsUnreadFor))

\* a chat with two unread messages of one sender: two unread for the
\* receiver, none for the sender, the later one as last message
C20_Witness ==
  \E c \in ChatIds(chats), i \in 1..Len(messages), j \in 1..Len(messages) :
    /\ i < j
    /\ messages[i].chat = c /\ messages[j].chat = c
    /\ messages[i].sender = messages[j].sender
    /\ summarize(messages, c, messages[i].sender).unread_count = 0
    /\ \E u \in chats[c].participants :
         /\ summarize(messages, c, u).unread_count = 2
         /\ summarize(messages, c, u).last_message = j

\* the databases left by every request of the four chat operations
\* (get_or_create, send, mark_read, summarize) made in the current state
ChatOperationResults ==
  {create_or_get_chat(Current, u, uid).db : u \in Users, uid \in UserIds}
    \cup {perform_create(Current, u, c, text, r).db :
            u \in Users, c \in 1..(Len(chats) + 1),
            text \in Contents, r \in IsReadInputs}
    \cup {retrieve(Current, u, c).db : u \in Users, c \in 1..(Len(chats) + 1)}
    \cup {chat_list(Current, u).db : u \in Users}

\* C21: under get_or_create, send, mark_read and summarize every Message row
\* stays in the table with the same conversation, sender, content and
\* creation time; only its read flag may differ afterwards.
C21_MessageFrame ==
  \A d \in ChatOperationResults :
    /\ Len(d.messages) >= Len(messages)
    /\ \A i \in 1..Len(messages) :
         [d.messages[i] EXCEPT !.is_read = FALSE] =
           [messages[i] EXCEPT !.is_read = FALSE]

\* a message exists that a send leaves in place below the new row and that
\* opening the chat changes in its read flag
C21_Witness ==
  \E i \in 1..Len(messages), u \in Users :
    /\ perform_create(Current, u, messages[i].chat, "hi", "absent").status = "Created"
    /\ retrieve(Current, u, messages[i].chat).db.messages[i].is_read
    /\ ~messages[i].is_read

\* C24: a detail request for a chat by an account that is not one of its
\* participants, or by any account when the chat is inactive, is answered
\* NotFound and leaves every Message row, read flags included, as it was.
C24_HiddenDetailNotFound ==
  \A u \in Users, c \in ChatIds(chats) :
    (u \notin chats[c].participants \/ ~chats[c].is_active) =>
      /\ retrieve(Current, u, c).status = "NotFound"
      /\ retrieve(Current, u, c).db.messages = messages

\* an inactive chat holds a message its receiver has not read, while a
\* third account is not a participant of that chat
C24_Witness ==
  \E i \in 1..Len(messages), u \in Users, v \in Users :
    /\ ~chats[messages[i].chat].is_active
    /\ ~messages[i].is_read
    /\ u \in chats[messages[i].chat].participants
    /\ u # messages[i].sender
    /\ v \notin chats[messages[i].chat].participants

\* what get_or_create(admin, user) followed by send(conv, admin, message)
\* leaves, starting from the current state: one chat of the pair, one more
\* Message row, unread, sent by the admin in that chat, and the chat's
\* updated_at not earlier than the new row
InitiatedLikeSend(d, admin, user) ==
  /\ Cardinality({c \in ChatIds(d.chats) :
                    d.chats[c].participants = {admin, user}}) = 1
  /\ Len(d.messages) = Len(messages) + 1
  /\ LET m == d.messages[Len(d.messages)]
     IN /\ m.sender = admin
        /\ ~m.is_read
        /\ m.chat \in ChatIds(d.chats)
        /\ d.chats[m.chat].participants = {admin, user}
        /\ d.chats[m.chat].updated_at >= m.created_at

\* C22: an admin-triggered initiation for a target user, through the view or
\* through either admin action, leaves exactly one chat for the pair, appends
\* exactly one unread message from the admin and updates the chat's
\* updated_at, whether or not a chat of the pair existed before.
C22_InitiateIsGetOrCreateThenSend ==
  \A admin \in Staff, user \in Users \ Staff :
    /\ \A m \in AdminMessages :
         InitiatedLikeSend(admin_initiate_chat(Current, admin, user, m).db,
                           admin, user)
    /\ InitiatedLikeSend(initiate_admin_chat(Current, admin, {user}).db,
                         admin, user)
    /\ \A c \in ChatIds(chats) :
         chats[c].participants \ {admin} = {user} =>
           InitiatedLikeSend(
             initiate_admin_chat_with_participants(Current, admin, {c}).db,
             admin, user)

\* the PostLike rows of a post that are in the table
LikesOf(post_id) ==
  {i \in 1..Len(likes) : likes[i].present /\ likes[i].post = post_id}

\* C23: when no toggle_like request is in flight, each post's likes_count is
\* the number of its PostLike rows, and at all times there is at most one
\* PostLike row per (user, post), however the requests' steps interleaved.
C23_LikesCountMatchesRows ==
  /\ (\A p \in Calls : toggle[p].pc = "done") =>
       \A post_id \in 1..Len(posts) :
         posts[post_id].present =>
           posts[post_id].likes_count = Cardinality(LikesOf(post_id))
  /\ \A i \in 1..Len(likes), j \in 1..Len(likes) :
       /\ likes[i].present /\ likes[j].present
       /\ likes[i].user = likes[j].user /\ likes[i].post = likes[j].post
       => i = j

\* the requests a user may not make on a row: PUT, PATCH or DELETE of an
\* existing row by a user who is neither its owner nor staff
Denied(table, model, u, pk) ==
  /\ pk \in 1..Len(table)
  /\ table[pk].present
  /\ table[pk][model.owner] # u
  /\ u \notin Staff

\* C25: a PUT, PATCH or DELETE of a post, job or service by a user who is
\* neither its owner nor staff is refused (403, or 404 when the row is
\* inactive) and leaves the table, and with it the row, as it was.
C25_OnlyOwnerOrStaffWrites ==
  \A u \in Users, method \in {"PUT", "PATCH", "DELETE"}, body \in Bodies :
    /\ \A pk \in 1..Len(posts) :
         Denied(posts, PostModel, u, pk) =>
           /\ detail(posts, PostModel, u, pk, method, body).status =
                (IF posts[pk].is_active THEN "Forbidden" ELSE "NotFound")
           /\ detail(posts, PostModel, u, pk, method, body).table = posts
    /\ \A pk \in 1..Len(jobs) :
         Denied(jobs, JobModel, u, pk) =>
           /\ detail(jobs, JobModel, u, pk, method, body).status =
                (IF jobs[pk].is_active THEN "Forbidden" ELSE "NotFound")
           /\ detail(jobs, JobModel, u, pk, method, body).table = jobs
    /\ \A pk \in 1..Len(services) :
         Denied(services, ServiceModel, u, pk) =>
           /\ detail(services, ServiceModel, u, pk, method, body).status =
                (IF services[pk].is_active THEN "Forbidden" ELSE "NotFound")
           /\ detail(services, ServiceModel, u, pk, method, body).table = services

\* an active post and an active job, each edited by its owner, exist while a
\* third user who is not staff owns neither
C25_Witness ==
  \E u \in Users \ Staff :
    /\ Len(posts) = 1 /\ Len(jobs) = 1
    /\ posts[1].is_active /\ posts[1].content = "b"
    /\ jobs[1].is_active /\ jobs[1].title = "b"
    /\ Denied(posts, PostModel, u, 1)
    /\ Denied(jobs, JobModel, u, 1)
====
